---- MODULE Spec2Model ----
(***************************************************************************)
(* Model of DTMerger (src/DTMerger.py): the page list of MainWindow, the   *)
(* operations that populate and reorder it (add_files, move_selected_up,   *)
(* move_selected_down) and the export path (export_tiff, collect_entries,  *)
(* create_merged_tiff, load_tiff_page, convert_docuworks_page,             *)
(* ensure_group4_mode).                                                    *)
(*                                                                         *)
(* Rows and page indices are 0-based as in the source; TLA+ sequences are  *)
(* 1-based, so row r of the widget is page_list[r + 1].                    *)
(***************************************************************************)
EXTENDS Integers, Sequences, FiniteSets, TLC

\* ------------------------------------------------------------------ bounds
MaxCatalog == 4   \* longest page list explored
MaxBatch   == 2   \* longest list of paths handed to one add_files call

\* -------------------------------------------------------------- environment
\* The files the user can drop or pass to add_files.
Paths == {"a.tif", "b.XDW", "c.xdw", "bad.tiff", "bad.xdw", "n.txt"}

\* Path.suffix of each path (case as written in the file name).
Suffix(path) ==
    CASE path = "a.tif"    -> ".tif"
      [] path = "b.XDW"    -> ".XDW"
      [] path = "c.xdw"    -> ".xdw"
      [] path = "bad.tiff" -> ".tiff"
      [] path = "bad.xdw"  -> ".xdw"
      [] OTHER             -> ".txt"

\* str.lower() on the suffixes above.
Lower(s) ==
    CASE s = ".XDW" -> ".xdw"
      [] OTHER      -> s

\* Files whose page count cannot be read: Image.open / xdwopen raises.
Unreadable == {"bad.tiff", "bad.xdw"}

\* Number of pages Image.open (n_frames) or xdwopen (doc.pages) reports.
FilePages(path) ==
    CASE path = "a.tif" -> 2
      [] path = "b.XDW" -> 2
      [] path = "c.xdw" -> 1
      [] OTHER          -> 0

\* Pixel format and (one-pixel) content of each page as decoded by Pillow.
PageMode(path, page_index) ==
    CASE path = "a.tif" /\ page_index = 0 -> "1"
      [] path = "a.tif"                   -> "L"
      [] path = "c.xdw"                   -> "1"
      [] OTHER                            -> "RGB"

PagePixel(path, page_index) ==
    CASE path = "a.tif" /\ page_index = 0 -> 255
      [] path = "a.tif"                   -> 100
      [] path = "b.XDW" /\ page_index = 0 -> 200
      [] path = "b.XDW"                   -> 60
      [] OTHER                            -> 0

\* ---------------------------------------------------------------- constants
TIFF_EXTENSIONS      == {".tif", ".tiff"}
DOCUWORKS_EXTENSIONS == {".xdw", ".xbd", ".xct"}
SUPPORTED_EXTENSIONS == TIFF_EXTENSIONS \cup DOCUWORKS_EXTENSIONS

Compressions == {"group4", "tiff_lzw"}

\* --------------------------------------------------------------- PageEntry
PageEntry(path, page_index, source_type) ==
    [source_path |-> path, page_index |-> page_index, source_type |-> source_type]

\* ------------------------------------------------------------------- state
VARIABLES
    page_list,    \* MainWindow.page_list: the PageEntry of each row, in row order
    currentRow,   \* page_list.currentRow(): -1 when no row is selected
    msg,          \* the QMessageBox shown by the handler that ran last, if any
    lastOp,       \* the handler that ran last
    lastPaths,    \* add_files: its paths argument (when it ran last)
    errors,       \* add_files: its errors list (when it ran last)
    pc,           \* position inside export_tiff / create_merged_tiff
    caller,       \* who called create_merged_tiff: "export_tiff" or "direct"
    entries,      \* create_merged_tiff: the entries argument
    compression,  \* create_merged_tiff: the compression argument
    order,        \* create_merged_tiff: number of entries the loop has taken up
    frames,       \* create_merged_tiff: frames
    xdw_docs,     \* create_merged_tiff: xdw_docs, as (path, handle) pairs in insertion order
    closeIdx,     \* finally: number of xdw_docs values the close loop has taken up
    handles,      \* per handle id: path, whether open, number of close() calls
    openCalls,    \* number of xdwopen calls made by this merge
    temp_dir,     \* "none" | "exists" | "removed"
    temp_files,   \* the docuworks_NNNNN.tif artifacts present in temp_dir (by order)
    exc,          \* the exception in flight or raised: "none" or its kind
    primary,      \* the first exception raised inside the try block, if any
    output,       \* frames written to output_path by first.save
    saveCalls     \* number of first.save calls

catalogVars == <<page_list, currentRow, msg, lastOp, lastPaths, errors>>
mergeVars   == <<pc, caller, entries, compression, order, frames, xdw_docs, closeIdx,
                 handles, openCalls, temp_dir, temp_files, exc, primary, output, saveCalls>>
vars        == <<catalogVars, mergeVars>>

NoMsg == [kind |-> "none", errors |-> <<>>]

\* ---------------------------------------------------------------- add_files
\* The body of "for path in paths" from position i on; acc carries the rows
\* added so far and the errors list.
\* for page_index in range(page_count): addItem(item of PageEntry(...))
AddPages(path, source_type, rows) ==
    rows \o [k \in 1..FilePages(path) |-> PageEntry(path, k - 1, source_type)]

\* AddLoop leaving the loop at the first failing file (break for continue).
RECURSIVE AddLoop_stop(_, _, _)
AddLoop_stop(paths, i, acc) ==
    IF i > Len(paths) THEN acc
    ELSE LET path == paths[i]
             ext  == Lower(Suffix(path))
         IN  IF ext \in TIFF_EXTENSIONS \/ ext \in DOCUWORKS_EXTENSIONS
             THEN IF path \in Unreadable
                  THEN [acc EXCEPT !.errors = Append(@, path)]
                  ELSE AddLoop_stop(paths, i + 1,
                                    [acc EXCEPT !.rows =
                                        AddPages(path,
                                                 IF ext \in TIFF_EXTENSIONS
                                                 THEN "tiff" ELSE "docuworks",
                                                 @)])
             ELSE AddLoop_stop(paths, i + 1, acc)

\* AddLoop recording a file of unrecognized extension among the errors.
RECURSIVE AddLoop_reject(_, _, _)
AddLoop_reject(paths, i, acc) ==
    IF i > Len(paths) THEN acc
    ELSE LET path == paths[i]
             ext  == Lower(Suffix(path))
         IN  IF ext \in TIFF_EXTENSIONS \/ ext \in DOCUWORKS_EXTENSIONS
             THEN IF path \in Unreadable
                  THEN AddLoop_reject(paths, i + 1,
                                      [acc EXCEPT !.errors = Append(@, path)])
                  ELSE AddLoop_reject(paths, i + 1,
                                      [acc EXCEPT !.rows =
                                          AddPages(path,
                                                   IF ext \in TIFF_EXTENSIONS
                                                   THEN "tiff" ELSE "docuworks",
                                                   @)])
             ELSE AddLoop_reject(paths, i + 1,
                                 [acc EXCEPT !.errors = Append(@, path)])

RECURSIVE AddLoop(_, _, _)
AddLoop(paths, i, acc) ==
    IF i > Len(paths) THEN acc
    ELSE LET path == paths[i]
             ext  == Lower(Suffix(path))
         IN  IF ext \in TIFF_EXTENSIONS \/ ext \in DOCUWORKS_EXTENSIONS
             THEN IF path \in Unreadable
                  THEN AddLoop(paths, i + 1,
                               [acc EXCEPT !.errors = Append(@, path)])
                  ELSE AddLoop(paths, i + 1,
                               [acc EXCEPT !.rows =
                                   AddPages(path,
                                            IF ext \in TIFF_EXTENSIONS
                                            THEN "tiff" ELSE "docuworks",
                                            @)])
             ELSE AddLoop(paths, i + 1, acc)

Idle == pc = "idle"

add_files(paths) ==
    /\ Idle
    /\ LET r == AddLoop(paths, 1, [rows |-> page_list, errors |-> <<>>])
       IN  /\ Len(r.rows) <= MaxCatalog
           /\ page_list' = r.rows
           /\ errors' = r.errors
           /\ msg' = IF r.errors # <<>>
                     THEN [kind |-> "warning", errors |-> r.errors]
                     ELSE NoMsg
    /\ lastOp' = "add_files"
    /\ lastPaths' = paths
    /\ UNCHANGED <<currentRow, mergeVars>>

\* extract_supported_paths_from_mime: the local files of a drop whose
\* lower-cased suffix is supported, in drop order.
RECURSIVE extract_supported_paths_from_mime(_)
extract_supported_paths_from_mime(urls) ==
    IF urls = <<>> THEN <<>>
    ELSE LET rest == extract_supported_paths_from_mime(Tail(urls))
         IN  IF Lower(Suffix(Head(urls))) \in SUPPORTED_EXTENSIONS
             THEN <<Head(urls)>> \o rest
             ELSE rest

Batches == UNION {[1..n -> Paths] : n \in 0..MaxBatch}

\* dropEvent: add_files runs on the supported paths of the drop, if any.
dropEvent ==
    \E urls \in Batches :
        /\ extract_supported_paths_from_mime(urls) # <<>>
        /\ add_files(extract_supported_paths_from_mime(urls))

\* add_files called with an arbitrary list of paths (it is a public method;
\* the drop handlers are its only callers inside the file).
add_files_call ==
    \E paths \in Batches : add_files(paths)

\* The user clicks a row of the list (QListWidget selection).
select_row ==
    /\ Idle
    /\ \E r \in 0..(Len(page_list) - 1) : currentRow' = r
    /\ lastOp' = "select"
    /\ lastPaths' = <<>>
    /\ errors' = <<>>
    /\ msg' = NoMsg
    /\ UNCHANGED <<page_list, mergeVars>>

\* ------------------------------------------------ QListWidget row operations
\* takeItem(row): the list without row `row` (0-based).
takeItem(list, row) ==
    SubSeq(list, 1, row) \o SubSeq(list, row + 2, Len(list))

\* insertItem placing the item one row too low.
insertItem_after(list, row, item) ==
    SubSeq(list, 1, row + 1) \o <<item>> \o SubSeq(list, row + 2, Len(list))

\* insertItem(row, item): item becomes row `row` (0-based).
insertItem(list, row, item) ==
    SubSeq(list, 1, row) \o <<item>> \o SubSeq(list, row + 1, Len(list))

move_selected_up ==
    /\ Idle
    /\ LET row == currentRow
       IN  IF row <= 0
           THEN UNCHANGED <<page_list, currentRow>>
           ELSE LET item == page_list[row + 1]
                IN  /\ page_list' = insertItem(takeItem(page_list, row), row - 1, item)
                    /\ currentRow' = row - 1
    /\ lastOp' = "move_selected_up"
    /\ lastPaths' = <<>>
    /\ errors' = <<>>
    /\ msg' = NoMsg
    /\ UNCHANGED mergeVars

move_selected_down ==
    /\ Idle
    /\ LET row == currentRow
       IN  IF row < 0 \/ row >= Len(page_list) - 1
           THEN UNCHANGED <<page_list, currentRow>>
           ELSE LET item == page_list[row + 1]
                IN  /\ page_list' = insertItem(takeItem(page_list, row), row + 1, item)
                    /\ currentRow' = row + 1
    /\ lastOp' = "move_selected_down"
    /\ lastPaths' = <<>>
    /\ errors' = <<>>
    /\ msg' = NoMsg
    /\ UNCHANGED mergeVars

\* ------------------------------------------------------------ frames
\* A decoded page (PIL Image): where it came from, its mode and its pixel.
Frame(path, page_index, mode, px) ==
    [source_path |-> path, page_index |-> page_index, mode |-> mode, px |-> px]

\* Image.convert("1"): the result is bi-level, every pixel black or white.
convert1(img) ==
    [img EXCEPT !.mode = "1", !.px = IF img.px >= 128 THEN 255 ELSE 0]

\* ensure_group4_mode without the conversion.
ensure_group4_mode_noop(img) == img

ensure_group4_mode(img) ==
    IF img.mode = "1" THEN img ELSE convert1(img)

\* The frame the loop appends for a decoded image.
normalized(comp, img) ==
    IF comp = "group4" THEN ensure_group4_mode(img) ELSE img

\* load_tiff_page: "ok" with the copied frame, or the IndexError when the
\* file now has n_frames frames and page_index is past the last one.
load_tiff_page(path, page_index, n_frames) ==
    LET max_index == n_frames - 1
    IN  IF page_index > max_index
        THEN [ok |-> FALSE]
        ELSE [ok |-> TRUE,
              frame |-> Frame(path, page_index, PageMode(path, page_index),
                              PagePixel(path, page_index))]

\* ------------------------------------------------- xdw_docs (a dict by path)
\* opened_docs.get that never finds the key.
docsGet_miss(docs, path) == 0

\* opened_docs.get(path): the cached handle id, 0 for None.
docsGet(docs, path) ==
    IF \E i \in 1..Len(docs) : docs[i].path = path
    THEN docs[CHOOSE i \in 1..Len(docs) : docs[i].path = path].h
    ELSE 0

\* opened_docs[path] = h: a new key goes last, an existing key keeps its place.
docsSet(docs, path, h) ==
    IF \E i \in 1..Len(docs) : docs[i].path = path
    THEN [i \in 1..Len(docs) |->
             IF docs[i].path = path THEN [path |-> path, h |-> h] ELSE docs[i]]
    ELSE Append(docs, [path |-> path, h |-> h])

\* ------------------------------------------------------------- export_tiff
ResetLocals ==
    /\ pc' = "idle"
    /\ caller' = "none"
    /\ entries' = <<>>
    /\ compression' = "none"
    /\ order' = 0
    /\ frames' = <<>>
    /\ xdw_docs' = <<>>
    /\ closeIdx' = 0
    /\ handles' = <<>>
    /\ openCalls' = 0
    /\ temp_dir' = "none"
    /\ temp_files' = {}
    /\ exc' = "none"
    /\ primary' = "none"
    /\ output' = <<>>
    /\ saveCalls' = 0

\* collect_entries: the PageEntry of every row, in row order.
collect_entries ==
    [row \in 1..Len(page_list) |-> page_list[row]]

\* The call create_merged_tiff(ents, output_path, comp): frames = [], xdw_docs = {}.
CallCreateMergedTiff(who, ents, comp) ==
    /\ pc' = "enter"
    /\ caller' = who
    /\ entries' = ents
    /\ compression' = comp
    /\ order' = 0
    /\ frames' = <<>>
    /\ xdw_docs' = <<>>
    /\ closeIdx' = 0
    /\ handles' = <<>>
    /\ openCalls' = 0
    /\ temp_dir' = "none"
    /\ temp_files' = {}
    /\ exc' = "none"
    /\ primary' = "none"
    /\ output' = <<>>
    /\ saveCalls' = 0

NoteOp(op) ==
    /\ lastOp' = op
    /\ msg' = NoMsg
    /\ lastPaths' = <<>>
    /\ errors' = <<>>

\* export_tiff with an empty list: the information box, and nothing else.
export_tiff_empty ==
    /\ Idle
    /\ Len(page_list) = 0
    /\ \E comp \in Compressions : TRUE
    /\ msg' = [kind |-> "information", errors |-> <<"no pages">>]
    /\ lastOp' = "export_tiff"
    /\ lastPaths' = <<>>
    /\ errors' = <<>>
    /\ UNCHANGED <<page_list, currentRow, mergeVars>>

\* export_tiff where the save dialog is cancelled.
export_tiff_cancel ==
    /\ Idle
    /\ Len(page_list) # 0
    /\ NoteOp("export_tiff")
    /\ UNCHANGED <<page_list, currentRow, mergeVars>>

\* export_tiff up to the call of create_merged_tiff.
export_tiff_start ==
    /\ Idle
    /\ Len(page_list) # 0
    /\ \E comp \in Compressions :
           CallCreateMergedTiff("export_tiff", collect_entries, comp)
    /\ NoteOp("export_tiff")
    /\ UNCHANGED <<page_list, currentRow>>

\* create_merged_tiff called on the collected entries by another caller than
\* export_tiff (no emptiness check before the call).
create_merged_tiff_call ==
    /\ Idle
    /\ \E comp \in Compressions :
           CallCreateMergedTiff("direct", collect_entries, comp)
    /\ NoteOp("create_merged_tiff")
    /\ UNCHANGED <<page_list, currentRow>>

\* ------------------------------------------------------ create_merged_tiff
mergeFrame == <<caller, entries, compression>>

\* with tempfile.TemporaryDirectory() as temp_dir:
enter_temp_dir ==
    /\ pc = "enter"
    /\ temp_dir' = "exists"
    /\ pc' = "loop"
    /\ UNCHANGED <<catalogVars, mergeFrame, order, frames, xdw_docs, closeIdx, handles,
                   openCalls, temp_files, exc, primary, output, saveCalls>>

\* An exception leaves the try block: the finally clause runs next.
Raise(kind) ==
    /\ exc' = kind
    /\ primary' = kind
    /\ pc' = "finally"
    /\ UNCHANGED frames

\* AppendFrame with the frame put in front of the list (insert(0, frame)).
AppendFrame_prepend(frame) ==
    /\ frames' = <<frame>> \o frames
    /\ pc' = "loop"
    /\ UNCHANGED <<exc, primary>>

\* The loop body ends normally with frame appended.
AppendFrame(frame) ==
    /\ frames' = Append(frames, frame)
    /\ pc' = "loop"
    /\ UNCHANGED <<exc, primary>>

\* One iteration on a "tiff" entry.
loop_tiff ==
    /\ pc = "loop"
    /\ order < Len(entries)
    /\ LET entry == entries[order + 1]
       IN  /\ entry.source_type = "tiff"
           /\ order' = order + 1
           /\ \E readable \in BOOLEAN,
                 n_frames \in {FilePages(entry.source_path), 1},
                 convert_ok \in BOOLEAN :
                 LET r == load_tiff_page(entry.source_path, entry.page_index, n_frames)
                 IN  IF ~readable \/ ~r.ok
                     THEN Raise("extract")
                     ELSE IF compression = "group4" /\ r.frame.mode # "1" /\ ~convert_ok
                          THEN Raise("normalize")
                          ELSE AppendFrame(normalized(compression, r.frame))
    /\ UNCHANGED <<catalogVars, mergeFrame, xdw_docs, closeIdx, handles, openCalls,
                   temp_dir, temp_files, output, saveCalls>>

\* convert_docuworks_page, first part: the handle of entry.source_path.
\* Gives the dict, the handle table and the number of xdwopen calls after
\* "doc = opened_docs.get(...); if doc is None: doc = xdwopen(...); ...".
handle_for(docs, hs, calls, path) ==
    IF docsGet(docs, path) = 0
    THEN [docs    |-> docsSet(docs, path, Len(hs) + 1),
          handles |-> Append(hs, [path |-> path, open |-> TRUE, closes |-> 0]),
          calls   |-> calls + 1]
    ELSE [docs |-> docs, handles |-> hs, calls |-> calls]

\* One iteration on a "docuworks" entry.
loop_docuworks ==
    /\ pc = "loop"
    /\ order < Len(entries)
    /\ LET entry == entries[order + 1]
           path  == entry.source_path
           t     == handle_for(xdw_docs, handles, openCalls, path)
       IN  /\ entry.source_type # "tiff"
           /\ order' = order + 1
           /\ \/ \* xdwopen raises: nothing is cached
                 /\ docsGet(xdw_docs, path) = 0
                 /\ openCalls' = openCalls + 1
                 /\ Raise("extract")
                 /\ UNCHANGED <<xdw_docs, handles, temp_files>>
              \/ \* export_image raises, with or without a partial artifact
                 /\ xdw_docs' = t.docs
                 /\ handles' = t.handles
                 /\ openCalls' = t.calls
                 /\ \E partial \in BOOLEAN :
                        temp_files' = IF partial THEN temp_files \cup {order}
                                      ELSE temp_files
                 /\ Raise("extract")
              \/ \* the artifact is written, Image.open or copy raises
                 /\ xdw_docs' = t.docs
                 /\ handles' = t.handles
                 /\ openCalls' = t.calls
                 /\ temp_files' = temp_files \cup {order}
                 /\ Raise("extract")
              \/ \* the page is rendered and decoded
                 /\ xdw_docs' = t.docs
                 /\ handles' = t.handles
                 /\ openCalls' = t.calls
                 /\ temp_files' = temp_files \cup {order}
                 /\ LET img == Frame(path, entry.page_index,
                                     PageMode(path, entry.page_index),
                                     PagePixel(path, entry.page_index))
                    IN  \E convert_ok \in BOOLEAN :
                            IF compression = "group4" /\ img.mode # "1" /\ ~convert_ok
                            THEN Raise("normalize")
                            ELSE AppendFrame(normalized(compression, img))
    /\ UNCHANGED <<catalogVars, mergeFrame, closeIdx, temp_dir, output, saveCalls>>

\* The for loop is exhausted: the try block ends normally.
loop_end ==
    /\ pc = "loop"
    /\ order >= Len(entries)
    /\ pc' = "finally"
    /\ UNCHANGED <<catalogVars, mergeFrame, order, frames, xdw_docs, closeIdx, handles,
                   openCalls, temp_dir, temp_files, exc, primary, output, saveCalls>>

\* finally: one iteration of "for doc in xdw_docs.values(): doc.close()".
\* close() either releases the handle or raises; a raise leaves the loop,
\* the finally clause and the with block, replacing the exception in flight.
finally_close ==
    /\ pc = "finally"
    /\ closeIdx < Len(xdw_docs)
    /\ LET h == xdw_docs[closeIdx + 1].h
       IN  /\ closeIdx' = closeIdx + 1
           /\ \/ /\ handles' = [handles EXCEPT ![h].open = FALSE, ![h].closes = @ + 1]
                 /\ UNCHANGED <<pc, exc>>
              \/ /\ handles' = [handles EXCEPT ![h].closes = @ + 1]
                 /\ exc' = "close"
                 /\ pc' = "exit_with"
    /\ UNCHANGED <<catalogVars, mergeFrame, order, frames, xdw_docs, openCalls,
                   temp_dir, temp_files, primary, output, saveCalls>>

\* The close loop is exhausted: the finally clause ends.
finally_end ==
    /\ pc = "finally"
    /\ closeIdx >= Len(xdw_docs)
    /\ pc' = "exit_with"
    /\ UNCHANGED <<catalogVars, mergeFrame, order, frames, xdw_docs, closeIdx, handles,
                   openCalls, temp_dir, temp_files, exc, primary, output, saveCalls>>

\* TemporaryDirectory.__exit__: the directory and its content are removed;
\* an exception in flight goes on to the caller.
exit_temp_dir ==
    /\ pc = "exit_with"
    /\ temp_dir' = "removed"
    /\ temp_files' = {}
    /\ pc' = IF exc # "none" THEN "raised" ELSE "check"
    /\ UNCHANGED <<catalogVars, mergeFrame, order, frames, xdw_docs, closeIdx, handles,
                   openCalls, exc, primary, output, saveCalls>>

\* if not frames: raise RuntimeError(...)
check_frames ==
    /\ pc = "check"
    /\ IF frames = <<>>
       THEN exc' = "nopages" /\ pc' = "raised"
       ELSE pc' = "save" /\ UNCHANGED exc
    /\ UNCHANGED <<catalogVars, mergeFrame, order, frames, xdw_docs, closeIdx, handles,
                   openCalls, temp_dir, temp_files, primary, output, saveCalls>>

\* first.save(output_path, save_all=True, append_images=rest, ...): all
\* frames in list order in one call, or a write error.
save_frames ==
    /\ pc = "save"
    /\ saveCalls' = saveCalls + 1
    /\ LET first == Head(frames)
           rest  == Tail(frames)
       IN  \/ /\ output' = <<first>> \o rest
              /\ pc' = "returned"
              /\ UNCHANGED exc
           \/ /\ output' = <<>>
              /\ exc' = "write"
              /\ pc' = "raised"
    /\ UNCHANGED <<catalogVars, mergeFrame, order, frames, xdw_docs, closeIdx, handles,
                   openCalls, temp_dir, temp_files, primary>>

\* Back in export_tiff: the critical box on an exception, else the
\* completion box; a direct caller gets the return or the exception.
finish ==
    /\ pc \in {"returned", "raised"}
    /\ msg' = IF caller = "export_tiff"
              THEN IF pc = "raised"
                   THEN [kind |-> "critical", errors |-> <<exc>>]
                   ELSE [kind |-> "information", errors |-> <<"done">>]
              ELSE NoMsg
    /\ ResetLocals
    /\ UNCHANGED <<page_list, currentRow, lastOp, lastPaths, errors>>

\* ---------------------------------------------------------- specification
Init ==
    /\ page_list = <<>>
    /\ currentRow = -1
    /\ msg = NoMsg
    /\ lastOp = "none"
    /\ lastPaths = <<>>
    /\ errors = <<>>
    /\ pc = "idle"
    /\ caller = "none"
    /\ entries = <<>>
    /\ compression = "none"
    /\ order = 0
    /\ frames = <<>>
    /\ xdw_docs = <<>>
    /\ closeIdx = 0
    /\ handles = <<>>
    /\ openCalls = 0
    /\ temp_dir = "none"
    /\ temp_files = {}
    /\ exc = "none"
    /\ primary = "none"
    /\ output = <<>>
    /\ saveCalls = 0

Next ==
    \/ dropEvent
    \/ add_files_call
    \/ select_row
    \/ move_selected_up
    \/ move_selected_down
    \/ export_tiff_empty
    \/ export_tiff_cancel
    \/ export_tiff_start
    \/ create_merged_tiff_call
    \/ enter_temp_dir
    \/ loop_tiff
    \/ loop_docuworks
    \/ loop_end
    \/ finally_close
    \/ finally_end
    \/ exit_temp_dir
    \/ check_frames
    \/ save_frames
    \/ finish

Spec == Init /\ [][Next]_vars

\* ------------------------------------------------------------ properties
Supported(path) == Lower(Suffix(path)) \in SUPPORTED_EXTENSIONS

\* The rows a readable supported file contributes: pages 0..n-1, ascending.
RowsOf(path) ==
    [k \in 1..FilePages(path) |->
        PageEntry(path, k - 1,
                  IF Lower(Suffix(path)) \in TIFF_EXTENSIONS THEN "tiff" ELSE "docuworks")]

\* The rows a batch must append: those of its readable files, in batch order.
RECURSIVE ExpectedRows(_)
ExpectedRows(paths) ==
    IF paths = <<>> THEN <<>>
    ELSE LET n    == Len(paths)
             last == paths[n]
         IN  ExpectedRows(SubSeq(paths, 1, n - 1))
                 \o (IF Supported(last) /\ last \notin Unreadable
                     THEN RowsOf(last) ELSE <<>>)

\* The positions of a batch whose file fails to report a page count.
FailingAt(paths) == {i \in 1..Len(paths) : paths[i] \in Unreadable}

AllClosed == \A h \in 1..Len(handles) : ~handles[h].open

\* The frame Pillow decodes for an entry, before normalization.
RawFrame(entry) ==
    Frame(entry.source_path, entry.page_index,
          PageMode(entry.source_path, entry.page_index),
          PagePixel(entry.source_path, entry.page_index))

\* C1: a create_merged_tiff that returns normally has written exactly
\* len(entries) frames, and the i-th written frame is the one extracted from
\* the i-th entry (same source_path and page_index, the decoded pixels as
\* normalized for the scheme): nothing reordered, dropped or duplicated.
C1_OutputMatchesEntries ==
    pc = "returned" =>
        /\ saveCalls = 1
        /\ Len(output) = Len(entries)
        /\ \A i \in 1..Len(entries) :
               /\ output[i].source_path = entries[i].source_path
               /\ output[i].page_index = entries[i].page_index
               /\ output[i].px = normalized(compression, RawFrame(entries[i])).px

\* C1 witness: a successful merge of four pages from a tiff and a docuworks
\* source, interleaved, with a source repeated.
C1_Witness ==
    /\ pc = "returned"
    /\ Len(entries) = 4
    /\ entries[1].source_type = "docuworks"
    /\ entries[2].source_type = "tiff"
    /\ entries[3].source_path = entries[1].source_path
    /\ entries[4].page_index = 0

\* C2 (as claimed): when an extraction or normalization error reaches the
\* caller, every docuworks handle opened has been closed, the temporary
\* directory and its artifacts are gone and the output was never written.
C2_Claim ==
    (pc = "raised" /\ primary \in {"extract", "normalize"}) =>
        /\ AllClosed
        /\ temp_dir = "removed"
        /\ temp_files = {}
        /\ saveCalls = 0
        /\ output = <<>>

\* C3 (as claimed): once the merge scope is left, every handle opened in it
\* has been closed exactly once, a close failure is never the error of the
\* merge, and a primary extraction error is the error surfaced.
C3_Claim ==
    pc \in {"check", "save", "returned", "raised"} =>
        /\ \A h \in 1..Len(handles) : handles[h].closes = 1 /\ ~handles[h].open
        /\ exc # "close"
        /\ primary # "none" => exc = primary

\* C4 (as claimed): a merge of an empty page list fails with the "no pages"
\* error and touches nothing: no temporary directory or artifact, no opened
\* document, no output; for export_tiff on an empty list and for
\* create_merged_tiff called with entries = [].
C4_Claim ==
    /\ (lastOp = "export_tiff" /\ page_list = <<>> /\ Idle) =>
           /\ msg = [kind |-> "information", errors |-> <<"no pages">>]
           /\ temp_dir = "none" /\ saveCalls = 0 /\ openCalls = 0
    /\ (pc # "idle" /\ entries = <<>>) =>
           /\ temp_dir = "none"
           /\ temp_files = {}
           /\ openCalls = 0
           /\ saveCalls = 0
           /\ pc # "returned"
           /\ pc = "raised" => exc = "nopages"

\* C5: add_files on a batch of N supported files of which M fail to report a
\* page count collects exactly M errors and reports them in one box, appends
\* the rows of the N-M other files (pages 0..count-1 ascending, files in batch
\* order) after the rows already there, which keep position and content; a
\* failing file adds no row.
C5_AddFilesPartialFailure ==
    [][(lastOp' = "add_files" /\ \A i \in 1..Len(lastPaths') : Supported(lastPaths'[i])) =>
          /\ Len(errors') = Cardinality(FailingAt(lastPaths'))
          /\ \A i \in FailingAt(lastPaths') :
                 /\ \E j \in 1..Len(errors') : errors'[j] = lastPaths'[i]
                 /\ \A r \in (Len(page_list) + 1)..Len(page_list') :
                        page_list'[r].source_path # lastPaths'[i]
          /\ msg' = IF FailingAt(lastPaths') # {}
                    THEN [kind |-> "warning", errors |-> errors']
                    ELSE NoMsg
          /\ page_list' = page_list \o ExpectedRows(lastPaths')
          /\ SubSeq(page_list', 1, Len(page_list)) = page_list
      ]_vars

\* C5 witness: a failing file first, a two-page file second, added to a list
\* that already had rows.
C5_Witness ==
    /\ lastOp = "add_files"
    /\ lastPaths = <<"bad.xdw", "a.tif">>
    /\ errors = <<"bad.xdw">>
    /\ Len(page_list) = 3
    /\ page_list[3].source_path = "a.tif"

\* The list with rows r and r + 1 (0-based) exchanged.
Swapped(list, r) ==
    [i \in 1..Len(list) |->
        IF i = r + 1 THEN list[r + 2]
        ELSE IF i = r + 2 THEN list[r + 1]
        ELSE list[i]]

\* C6: move up on row 0 or without selection, and move down on the last row
\* or without selection, change neither list nor selection; any other move
\* exchanges the selected row with its neighbour, leaves all other rows and
\* the length as they were, and the selection follows the moved entry.
C6_MoveSwapsAdjacent ==
    [][/\ lastOp' = "move_selected_up" =>
              IF currentRow <= 0
              THEN page_list' = page_list /\ currentRow' = currentRow
              ELSE /\ page_list' = Swapped(page_list, currentRow - 1)
                   /\ currentRow' = currentRow - 1
                   /\ page_list'[currentRow' + 1] = page_list[currentRow + 1]
                   /\ Len(page_list') = Len(page_list)
       /\ lastOp' = "move_selected_down" =>
              IF currentRow < 0 \/ currentRow = Len(page_list) - 1
              THEN page_list' = page_list /\ currentRow' = currentRow
              ELSE /\ page_list' = Swapped(page_list, currentRow)
                   /\ currentRow' = currentRow + 1
                   /\ page_list'[currentRow' + 1] = page_list[currentRow + 1]
                   /\ Len(page_list') = Len(page_list)
      ]_vars

\* C6 witness: after a move up, page 2 of a file sits above its page 1 with
\* the selection on it, away from both ends of the list.
C6_Witness ==
    /\ lastOp = "move_selected_up"
    /\ Len(page_list) = 4
    /\ currentRow = 1
    /\ page_list[2].page_index = 1
    /\ page_list[3].page_index = 0
    /\ page_list[3].source_path = page_list[2].source_path

\* The docuworks paths among the entries the loop has taken up.
DocuworksPathsTaken ==
    {entries[i].source_path : i \in {j \in 1..order : entries[j].source_type # "tiff"}}

\* C7: during a merge at most one handle is open per docuworks path, the
\* cached handle of a path is the one opened for it, and the number of
\* xdwopen calls equals the number of distinct docuworks paths among the
\* entries taken up so far.
C7_OneHandlePerPath ==
    pc # "idle" =>
        /\ \A g, h \in 1..Len(handles) : handles[g].path = handles[h].path => g = h
        /\ \A i \in 1..Len(xdw_docs) : handles[xdw_docs[i].h].path = xdw_docs[i].path
        /\ openCalls = Cardinality(DocuworksPathsTaken)

\* C7 witness: three pages taken up, the first and third from one docuworks
\* document with another document between them: two opens.
C7_Witness ==
    /\ pc = "loop"
    /\ order = 3
    /\ entries[1].source_path = "b.XDW"
    /\ entries[2].source_path = "c.xdw"
    /\ entries[3].source_path = "b.XDW"
    /\ openCalls = 2
    /\ Len(frames) = 3

\* C8: under group4 every accumulated or written frame is bi-level, equals
\* the decoded frame when that was bi-level already, and is a fixed point of
\* the normalizer; under tiff_lzw every frame is the decoded frame unchanged.
C8_Normalization ==
    /\ \A i \in 1..Len(frames) :
           IF compression = "group4"
           THEN /\ frames[i].mode = "1"
                /\ RawFrame(entries[i]).mode = "1" => frames[i] = RawFrame(entries[i])
                /\ ensure_group4_mode(frames[i]) = frames[i]
                /\ ensure_group4_mode(ensure_group4_mode(RawFrame(entries[i])))
                       = ensure_group4_mode(RawFrame(entries[i]))
           ELSE frames[i] = RawFrame(entries[i])
    /\ \A i \in 1..Len(output) :
           compression = "group4" => output[i].mode = "1"

\* C8 witness: a group4 merge about to write a bi-level source page, a
\* grayscale one and a colour one.
C8_Witness ==
    /\ pc = "save"
    /\ compression = "group4"
    /\ \E i, j, k \in 1..Len(entries) :
           /\ RawFrame(entries[i]).mode = "1"
           /\ RawFrame(entries[j]).mode = "L"
           /\ RawFrame(entries[k]).mode = "RGB"

\* C9 (as claimed): a path with an unrecognized extension handed to
\* add_files is recorded as an error of the batch and adds no row.
C9_Claim ==
    lastOp = "add_files" =>
        \A i \in 1..Len(lastPaths) :
            ~Supported(lastPaths[i]) =>
                /\ \E j \in 1..Len(errors) : errors[j] = lastPaths[i]
                /\ \A r \in 1..Len(page_list) : page_list[r].source_path # lastPaths[i]

\* C9 (amended): a path with an unrecognized extension handed to add_files is
\* skipped silently: it adds no row, it is not among the errors, and the
\* batch has the effect of the same batch without it.
C9_UnsupportedSkipped ==
    [][(lastOp' = "add_files" /\ \E i \in 1..Len(lastPaths') : ~Supported(lastPaths'[i])) =>
          /\ \A i \in 1..Len(lastPaths') :
                 ~Supported(lastPaths'[i]) =>
                     /\ \A j \in 1..Len(errors') : errors'[j] # lastPaths'[i]
                     /\ \A r \in 1..Len(page_list') :
                            page_list'[r].source_path # lastPaths'[i]
          /\ Len(errors') = Cardinality(FailingAt(lastPaths'))
          /\ msg' = IF errors' = <<>> THEN NoMsg
                    ELSE [kind |-> "warning", errors |-> errors']
          /\ page_list' = page_list \o ExpectedRows(extract_supported_paths_from_mime(lastPaths'))
      ]_vars

\* C9 witness: a batch of an unsupported file and a readable one has added
\* the rows of the readable one and reported nothing.
C9_Witness ==
    /\ lastOp = "add_files"
    /\ lastPaths = <<"n.txt", "c.xdw">>
    /\ errors = <<>>
    /\ msg = NoMsg
    /\ page_list = <<PageEntry("c.xdw", 0, "docuworks")>>

\* C10 (as claimed): the output is written at most once, and only after all
\* entries are extracted, all handles of the merge are closed and the
\* temporary directory is removed; and by the time the temporary directory
\* is removed the handles have been closed.
C10_Claim ==
    /\ saveCalls <= 1
    /\ (pc = "save" \/ saveCalls > 0) =>
           /\ order = Len(entries)
           /\ Len(frames) = Len(entries)
           /\ AllClosed
           /\ temp_dir = "removed"
           /\ temp_files = {}
    /\ temp_dir = "removed" => AllClosed

====
